---- MODULE Spec2Model ----
(***************************************************************************)
(* Model of the AgentForge backend (src/main.py): the analyze endpoint     *)
(* (rule based scan, risk score, step narration, persistence) and the      *)
(* issues-fixed-today metric, over a document store.                       *)
(*                                                                         *)
(* Strings the code inspects (the submitted code, the declared language,   *)
(* the rules' match substrings, the formatted step outputs) are sequences  *)
(* of one-character strings; strings the code only copies are TLA+ strings.*)
(***************************************************************************)
EXTENDS Integers, Sequences, FiniteSets, TLC

VARIABLES
    analysis,   \* the "analysis" collection of the document store, in insertion order
    now,        \* the clock read by datetime.now(timezone.utc), in ticks
    response,   \* what the last request produced: a returned body or a raised failure
    call,       \* the last request: its input, when it ran, whether its store call raised
    served,     \* number of analyze requests that returned so far
    fs,         \* scorer harness: a findings list handed to the scoring step
    sc          \* scorer harness: the score computed for fs

vars == <<analysis, now, response, call, served, fs, sc>>

(***************************************************************************)
(* Bounds of the model.                                                    *)
(***************************************************************************)
MaxChunks == 4
MaxDocs == 2
MaxTime == 3
TicksPerDay == 2
MaxFindings == 4

(***************************************************************************)
(* Text fragments the inputs are built from.                               *)
(***************************************************************************)
EVAL == <<"e", "v", "a", "l", "(">>
SQL == <<"S", "E", "L", "E", "C", "T", " ", "*", " ", "F", "R", "O", "M">>
HTML == <<"i", "n", "n", "e", "r", "H", "T", "M", "L", " ", "=">>
E_ALONE == <<"e">>
UPPER_EVAL == <<"E", "V", "A", "L", "(">>
NL == <<"\n">>
CR == <<"\r">>

PYTHON == <<"p", "y", "t", "h", "o", "n">>
PYTHON_CAPS == <<"P", "y", "t", "h", "o", "n">>
JAVASCRIPT == <<"j", "a", "v", "a", "s", "c", "r", "i", "p", "t">>
RUBY == <<"r", "u", "b", "y">>
ANY == <<"a", "n", "y">>

Severities == {"low", "medium", "high", "critical"}

(***************************************************************************)
(* The rule table.                                                         *)
(***************************************************************************)
SECURITY_RULES ==
    << [id |-> "AF-PY-001", language |-> PYTHON, match |-> EVAL,
        title |-> "Use of eval()", severity |-> "high",
        description |-> "The built-in eval() executes arbitrary code and can be exploited.",
        recommendation |-> "Avoid eval(); use safe parsing or literal_eval for trusted input."],
       [id |-> "AF-SQL-001", language |-> ANY, match |-> SQL,
        title |-> "Potential SQL injection (raw query)", severity |-> "critical",
        description |-> "Raw SQL concatenation can lead to SQL injection.",
        recommendation |-> "Use parameterized queries or ORM query builders."],
       [id |-> "AF-JS-001", language |-> JAVASCRIPT, match |-> HTML,
        title |-> "Unsafe DOM insertion", severity |-> "high",
        description |-> "Assigning to innerHTML can enable XSS if input is untrusted.",
        recommendation |-> "Use textContent or sanitize HTML before insertion."] >>

(***************************************************************************)
(* str.splitlines(): the lines of a text, without their line breaks.  A    *)
(* "\r\n" pair is one break, and a final break opens no further line.  Of  *)
(* the line breaks Python knows, the inputs here use "\n" and "\r".        *)
(***************************************************************************)
LineBreaks == {"\n", "\r"}

RECURSIVE SplitFrom(_, _, _)
SplitFrom(s, i, cur) ==
    IF i > Len(s) THEN (IF cur = <<>> THEN <<>> ELSE <<cur>>)
    ELSE IF s[i] = "\r" /\ i < Len(s) /\ s[i + 1] = "\n"
         THEN <<cur>> \o SplitFrom(s, i + 2, <<>>)
    ELSE IF s[i] \in LineBreaks
         THEN <<cur>> \o SplitFrom(s, i + 1, <<>>)
    ELSE SplitFrom(s, i + 1, Append(cur, s[i]))

splitlines(s) == SplitFrom(s, 1, <<>>)

(***************************************************************************)
(* str.lower() on the letters the inputs use.                              *)
(***************************************************************************)
UpperLetters == <<"A", "B", "C", "D", "E", "F", "G", "H", "I", "J", "K", "L", "M",
                  "N", "O", "P", "Q", "R", "S", "T", "U", "V", "W", "X", "Y", "Z">>
LowerLetters == <<"a", "b", "c", "d", "e", "f", "g", "h", "i", "j", "k", "l", "m",
                  "n", "o", "p", "q", "r", "s", "t", "u", "v", "w", "x", "y", "z">>

LowerChar(c) ==
    IF \E k \in DOMAIN UpperLetters : UpperLetters[k] = c
    THEN LowerLetters[CHOOSE k \in DOMAIN UpperLetters : UpperLetters[k] = c]
    ELSE c

lower(s) == [k \in DOMAIN s |-> LowerChar(s[k])]

(***************************************************************************)
(* pat in line: a left to right search for the first place pat occurs.     *)
(***************************************************************************)
RECURSIVE MatchAt(_, _, _, _)
MatchAt(pat, line, at, j) ==
    IF j > Len(pat) THEN TRUE
    ELSE IF at + j - 1 > Len(line) THEN FALSE
    ELSE IF line[at + j - 1] # pat[j] THEN FALSE
    ELSE MatchAt(pat, line, at, j + 1)

RECURSIVE FindFrom(_, _, _)
FindFrom(pat, line, at) ==
    IF at + Len(pat) - 1 > Len(line) THEN FALSE
    ELSE IF MatchAt(pat, line, at, 1) THEN TRUE
    ELSE FindFrom(pat, line, at + 1)

Contains(pat, line) == FindFrom(pat, line, 1)

(***************************************************************************)
(* Pydantic models: an instance is its class name and its field values;    *)
(* model_dump() gives the plain dictionary of the fields.                  *)
(***************************************************************************)
Finding(rule_id, title, severity, line, description, recommendation) ==
    [cls |-> "Finding",
     data |-> [rule_id |-> rule_id, title |-> title, severity |-> severity,
               line |-> line, description |-> description,
               recommendation |-> recommendation]]

AgentStep(agent, action, output, elapsed_ms) ==
    [cls |-> "AgentStep",
     data |-> [agent |-> agent, action |-> action, output |-> output,
               elapsed_ms |-> elapsed_ms]]

AnalyzeResponse(score, findings, steps, analysis_id) ==
    [score |-> score, findings |-> findings, steps |-> steps,
     analysis_id |-> analysis_id]

model_dump(m) == m.data

DumpAll(ms) == [k \in DOMAIN ms |-> model_dump(ms[k])]

(***************************************************************************)
(* Step 1, the static scan: every line, 1-based, against every rule in     *)
(* table order.                                                            *)
(***************************************************************************)
\* Variant: the declared language compared as given, without lower().
RuleApplies_NoLower(rule, language, line) ==
    /\ rule.language \in {ANY, language}
    /\ Contains(rule.match, line)

RuleApplies(rule, language, line) ==
    /\ rule.language \in {ANY, lower(language)}
    /\ Contains(rule.match, line)

RuleFinding(rule, i) ==
    Finding(rule.id, rule.title, rule.severity, i, rule.description,
            rule.recommendation)

RECURSIVE ScanRules(_, _, _, _)
ScanRules(i, line, language, r) ==
    IF r > Len(SECURITY_RULES) THEN <<>>
    ELSE (IF RuleApplies(SECURITY_RULES[r], language, line)
          THEN <<RuleFinding(SECURITY_RULES[r], i)>>
          ELSE <<>>)
         \o ScanRules(i, line, language, r + 1)

RECURSIVE ScanLines(_, _, _)
ScanLines(code_lines, language, i) ==
    IF i > Len(code_lines) THEN <<>>
    ELSE ScanRules(i, code_lines[i], language, 1)
         \o ScanLines(code_lines, language, i + 1)

\* Variant: the loops exchanged, every rule against every line.
RECURSIVE ScanRuleMajor(_, _, _, _)
ScanRuleMajor(code_lines, language, r, i) ==
    IF r > Len(SECURITY_RULES) THEN <<>>
    ELSE IF i > Len(code_lines) THEN ScanRuleMajor(code_lines, language, r + 1, 1)
    ELSE (IF RuleApplies(SECURITY_RULES[r], language, code_lines[i])
          THEN <<RuleFinding(SECURITY_RULES[r], i)>>
          ELSE <<>>)
         \o ScanRuleMajor(code_lines, language, r, i + 1)

Scan_RuleMajor(code_lines, language) == ScanRuleMajor(code_lines, language, 1, 1)

Scan(code_lines, language) == ScanLines(code_lines, language, 1)

(***************************************************************************)
(* Step 2, the heuristic risk score.                                       *)
(***************************************************************************)
Min(a, b) == IF a <= b THEN a ELSE b
Max(a, b) == IF a >= b THEN a ELSE b

\* Variant: critical weighted 4.
sev_weights_Critical4 ==
    [s \in Severities |->
        CASE s = "low" -> 1
          [] s = "medium" -> 2
          [] s = "high" -> 3
          [] s = "critical" -> 4]

sev_weights ==
    [s \in Severities |->
        CASE s = "low" -> 1
          [] s = "medium" -> 2
          [] s = "high" -> 3
          [] s = "critical" -> 5]

RECURSIVE SumWeights(_, _)
SumWeights(findings, k) ==
    IF k > Len(findings) THEN 0
    ELSE sev_weights[findings[k].data.severity] + SumWeights(findings, k + 1)

\* Variant: five points per weight-point.
RawScore_Times5(findings) == SumWeights(findings, 1) * 5

RawScore(findings) == SumWeights(findings, 1) * 10

\* Variant: no clamping.
Score_NoClamp(findings) == 100 - RawScore(findings)

\* Variant: the distance from 100 instead of the clamped difference.
Score_Abs(findings) ==
    IF RawScore(findings) <= 100 THEN 100 - RawScore(findings)
    ELSE RawScore(findings) - 100

Score(findings) == Max(0, 100 - Min(100, RawScore(findings)))

(***************************************************************************)
(* f"{n}": the decimal digits of an integer.                               *)
(***************************************************************************)
Digits == <<"0", "1", "2", "3", "4", "5", "6", "7", "8", "9">>

RECURSIVE Str(_)
Str(n) ==
    IF n < 0 THEN <<"-">> \o Str(-n)
    ELSE IF n < 10 THEN <<Digits[n + 1]>>
    ELSE Str(n \div 10) \o <<Digits[(n % 10) + 1]>>

(***************************************************************************)
(* The three narrated steps.                                               *)
(***************************************************************************)
SCANNING == <<"S", "c", "a", "n", "n", "i", "n", "g", " ", "f", "o", "r", " ", "i", "n", "s", "e", "c", "u", "r", "e", " ", "p", "a", "t", "t", "e", "r", "n", "s">>
SCORE_EQ == <<"S", "c", "o", "r", "e", "=">>
SUGGESTIONS_READY == <<" ", "s", "u", "g", "g", "e", "s", "t", "i", "o", "n", "s", " ", "r", "e", "a", "d", "y">>
CLEAN == <<"C", "l", "e", "a", "n", " ", "b", "i", "l", "l", " ", "o", "f", " ", "h", "e", "a", "l", "t", "h">>

ScanStep == AgentStep("StaticAnalyzer", "Token scan", SCANNING, 42)

ScoreStep(score) ==
    AgentStep("RiskScorer", "Compute score", SCORE_EQ \o Str(score), 15)

\* Variant: suggestions announced only for more than one finding.
RemediationStep_MoreThanOne(findings) ==
    IF Len(findings) > 1
    THEN AgentStep("Remediator", "Suggest fixes",
                   Str(Len(findings)) \o SUGGESTIONS_READY, 18)
    ELSE AgentStep("Remediator", "No issues", CLEAN, 8)

RemediationStep(findings) ==
    IF findings # <<>>
    THEN AgentStep("Remediator", "Suggest fixes",
                   Str(Len(findings)) \o SUGGESTIONS_READY, 18)
    ELSE AgentStep("Remediator", "No issues", CLEAN, 8)

Steps(findings, score) ==
    <<ScanStep, ScoreStep(score), RemediationStep(findings)>>

(***************************************************************************)
(* The document handed to the store.                                       *)
(***************************************************************************)
\* Variant: the score left at its schema default.
AnalysisDoc_DefaultScore(code, language, findings, steps, score, created_at) ==
    [code |-> code, language |-> language, findings |-> DumpAll(findings),
     steps |-> DumpAll(steps), score |-> 0, created_at |-> created_at]

AnalysisDoc(code, language, findings, steps, score, created_at) ==
    [code |-> code, language |-> language, findings |-> DumpAll(findings),
     steps |-> DumpAll(steps), score |-> score, created_at |-> created_at]

(***************************************************************************)
(* The document store.  create_document inserts one document and returns   *)
(* its identifier, get_documents returns the documents a filter selects;   *)
(* either may instead raise, leaving the store as it was.                  *)
(***************************************************************************)
create_document(collection, doc) ==
    [collection |-> Append(collection, doc), id |-> Str(Len(collection) + 1)]

get_documents(collection, gte) ==
    SelectSeq(collection, LAMBDA d : d.created_at >= gte)

(***************************************************************************)
(* datetime.now(...).replace(hour=0, minute=0, second=0, microsecond=0).   *)
(***************************************************************************)
\* Variant: no truncation to today, every document counts.
StartOfDay_Epoch(t) == 0

StartOfDay(t) == t - (t % TicksPerDay)

NoBody == [detail |-> "Internal Server Error"]

(***************************************************************************)
(* POST /api/analyze.                                                      *)
(***************************************************************************)
Analyze(code, language) ==
    \E findings \in {Scan(splitlines(code), language)} :
    \E score \in {Score(findings)} :
    \E steps \in {Steps(findings, score)} :
        \/ \E created \in {create_document(analysis,
                    AnalysisDoc(code, language, findings, steps, score, now))} :
              /\ Len(analysis) < MaxDocs
              /\ analysis' = created.collection
              /\ response' = [endpoint |-> "analyze", outcome |-> "returned",
                              body |-> AnalyzeResponse(score, findings, steps,
                                                       created.id)]
              /\ call' = [endpoint |-> "analyze", code |-> code,
                          language |-> language, storeRaised |-> FALSE,
                          at |-> now]
              /\ served' = served + 1
              /\ UNCHANGED <<now, fs, sc>>
        \/ /\ response' = [endpoint |-> "analyze", outcome |-> "raised",
                           body |-> NoBody]
           /\ call' = [endpoint |-> "analyze", code |-> code,
                       language |-> language, storeRaised |-> TRUE, at |-> now]
           /\ UNCHANGED <<analysis, now, served, fs, sc>>

(***************************************************************************)
(* GET /api/metrics/issues-fixed-today.                                    *)
(***************************************************************************)
BaseCount == 1247

\* int(n * 0.5): the product is exact, int() drops the fraction.
HalfOf(n) == (n * 5) \div 10

FixedCount(docs) == Max(BaseCount, HalfOf(Len(docs)) + BaseCount)

FallbackCount == BaseCount

IssuesFixedToday ==
    LET start == StartOfDay(now)
        docs == get_documents(analysis, start)
    IN  \/ /\ response' = [endpoint |-> "metrics", outcome |-> "returned",
                           body |-> [count |-> FixedCount(docs)]]
           /\ call' = [endpoint |-> "metrics", code |-> <<>>,
                       language |-> <<>>, storeRaised |-> FALSE, at |-> now]
           /\ UNCHANGED <<analysis, now, served, fs, sc>>
        \/ /\ response' = [endpoint |-> "metrics", outcome |-> "returned",
                           body |-> [count |-> FallbackCount]]
           /\ call' = [endpoint |-> "metrics", code |-> <<>>,
                       language |-> <<>>, storeRaised |-> TRUE, at |-> now]
           /\ UNCHANGED <<analysis, now, served, fs, sc>>

(***************************************************************************)
(* The clock advances between requests.                                    *)
(***************************************************************************)
Tick ==
    /\ now < MaxTime
    /\ now' = now + 1
    /\ UNCHANGED <<analysis, response, call, served, fs, sc>>

(***************************************************************************)
(* Scorer harness: the scoring step applied to findings of any severity.   *)
(***************************************************************************)
ProbeFinding(severity, line) ==
    Finding("AF-PROBE", "Probe", severity, line, "Probe", "Probe")

SevRank ==
    [s \in Severities |->
        CASE s = "low" -> 0
          [] s = "medium" -> 1
          [] s = "high" -> 2
          [] s = "critical" -> 3]

AddFinding ==
    \E severity \in Severities :
        /\ Len(fs) < MaxFindings
        /\ fs' = Append(fs, ProbeFinding(severity, Len(fs) + 1))
        /\ sc' = Score(fs')
        /\ UNCHANGED <<analysis, now, response, call, served>>

WorsenFinding ==
    \E k \in DOMAIN fs, severity \in Severities :
        /\ SevRank[severity] > SevRank[fs[k].data.severity]
        /\ fs' = [fs EXCEPT ![k] = ProbeFinding(severity, k)]
        /\ sc' = Score(fs')
        /\ UNCHANGED <<analysis, now, response, call, served>>

(***************************************************************************)
(* Inputs.                                                                 *)
(***************************************************************************)
Chunks == {EVAL, SQL, HTML, UPPER_EVAL, E_ALONE, NL, CR}

RECURSIVE Concat(_, _)
Concat(parts, k) ==
    IF k > Len(parts) THEN <<>> ELSE parts[k] \o Concat(parts, k + 1)

Codes ==
    { Concat(parts, 1) :
        parts \in UNION { [1..n -> Chunks] : n \in 0..MaxChunks } }

Languages == {PYTHON_CAPS, JAVASCRIPT, RUBY}

SampleCodes == {<<>>, EVAL, SQL \o NL \o EVAL \o SQL}

SampleLanguages == {PYTHON_CAPS, RUBY}

(***************************************************************************)
(* Specifications.                                                         *)
(***************************************************************************)
Init ==
    /\ analysis = <<>>
    /\ now = 0
    /\ response = [endpoint |-> "none", outcome |-> "none", body |-> NoBody]
    /\ call = [endpoint |-> "none", code |-> <<>>, language |-> <<>>,
               storeRaised |-> FALSE, at |-> 0]
    /\ served = 0
    /\ fs = <<>>
    /\ sc = Score(<<>>)

AnalyzeRequest ==
    \E code \in SampleCodes, language \in SampleLanguages :
        Analyze(code, language)

Next == AnalyzeRequest \/ IssuesFixedToday \/ Tick

\* The server: any interleaving of requests and clock ticks.
Spec == Init /\ [][Next]_vars

\* A request as submitted, before its handler runs.
InitAnalyze ==
    /\ analysis = <<>>
    /\ now = 0
    /\ response = [endpoint |-> "none", outcome |-> "none", body |-> NoBody]
    /\ \E code \in Codes, language \in Languages :
          call = [endpoint |-> "submitted", code |-> code,
                  language |-> language, storeRaised |-> FALSE, at |-> 0]
    /\ served = 0
    /\ fs = <<>>
    /\ sc = Score(<<>>)

AnalyzeOnce ==
    /\ call.endpoint = "submitted"
    /\ Analyze(call.code, call.language)

NextAnalyze == AnalyzeOnce

\* One analyze request, over every code and language of the input sets.
SpecAnalyze == InitAnalyze /\ [][NextAnalyze]_vars

NextScore == AddFinding \/ WorsenFinding

\* The scoring step over findings lists of every severity mix.
SpecScore == Init /\ [][NextScore]_vars

(***************************************************************************)
(* Vocabulary of the properties, stated without the handler's operators.   *)
(***************************************************************************)
AnalyzeReturned ==
    call.endpoint = "analyze" /\ response.outcome = "returned"

\* pat occurs in line at offset k (0-based).
OccursAt(pat, line, k) ==
    /\ k + Len(pat) <= Len(line)
    /\ SubSeq(line, k + 1, k + Len(pat)) = pat

Occurrences(pat, line) == {k \in 0..Len(line) : OccursAt(pat, line, k)}

HasSubstring(pat, line) == Occurrences(pat, line) # {}

SameLetter(x, y) ==
    \/ x = y
    \/ \E n \in DOMAIN UpperLetters : {x, y} = {UpperLetters[n], LowerLetters[n]}

EqualIgnoringCase(a, b) ==
    /\ Len(a) = Len(b)
    /\ \A k \in DOMAIN a : SameLetter(a[k], b[k])

\* Rule r is to be reported on the given line for the declared language.
Expected(r, language, line) ==
    /\ \/ SECURITY_RULES[r].language = ANY
       \/ EqualIgnoringCase(SECURITY_RULES[r].language, language)
    /\ HasSubstring(SECURITY_RULES[r].match, line)

RuleIndex(rule_id) ==
    CHOOSE r \in DOMAIN SECURITY_RULES : SECURITY_RULES[r].id = rule_id

CountOf(findings, severity) ==
    Cardinality({k \in DOMAIN findings : findings[k].data.severity = severity})

\* low 1, medium 2, high 3, critical 5.
WeightPoints(findings) ==
    CountOf(findings, "low") + 2 * CountOf(findings, "medium")
    + 3 * CountOf(findings, "high") + 5 * CountOf(findings, "critical")

DigitValue(c) == (CHOOSE d \in DOMAIN Digits : Digits[d] = c) - 1

IsDecimal(text) ==
    /\ text # <<>>
    /\ \A k \in DOMAIN text : \E d \in DOMAIN Digits : Digits[d] = text[k]
    /\ Len(text) > 1 => text[1] # "0"

RECURSIVE DecimalValue(_)
DecimalValue(text) ==
    IF text = <<>> THEN 0
    ELSE 10 * DecimalValue(SubSeq(text, 1, Len(text) - 1))
         + DigitValue(text[Len(text)])

\* text is the decimal numeral of n followed by suffix.
IsNumberThen(text, n, suffix) ==
    /\ Len(text) > Len(suffix)
    /\ SubSeq(text, Len(text) - Len(suffix) + 1, Len(text)) = suffix
    /\ IsDecimal(SubSeq(text, 1, Len(text) - Len(suffix)))
    /\ DecimalValue(SubSeq(text, 1, Len(text) - Len(suffix))) = n

\* text is prefix followed by the decimal numeral of n.
IsThenNumber(text, prefix, n) ==
    /\ Len(text) > Len(prefix)
    /\ SubSeq(text, 1, Len(prefix)) = prefix
    /\ IsDecimal(SubSeq(text, Len(prefix) + 1, Len(text)))
    /\ DecimalValue(SubSeq(text, Len(prefix) + 1, Len(text))) = n

DayOf(t) == t \div TicksPerDay

DocsOfDay(day) ==
    {k \in DOMAIN analysis : DayOf(analysis[k].created_at) = day}

(***************************************************************************)
(* C1.  When create_document fails during POST /api/analyze the failure is *)
(* swallowed: the request still returns the computed score, findings and   *)
(* steps.  (The handler calls create_document outside any try block, so    *)
(* this statement is violated.)                                            *)
(***************************************************************************)
C1_PersistenceFailureSwallowed ==
    (call.endpoint = "analyze" /\ call.storeRaised) =>
        /\ response.outcome = "returned"
        /\ response.body.score \in 0..100
        /\ Len(response.body.steps) = 3

(***************************************************************************)
(* C2.  For any number and any severity mix of findings the score is an    *)
(* integer between 0 and 100 inclusive.                                    *)
(***************************************************************************)
C2_ScoreInRange == sc \in 0..100

C2_Witness == WeightPoints(fs) > 10 /\ sc = 0

(***************************************************************************)
(* C3 as stated: findings whose weights sum to five or more give score 0.  *)
(***************************************************************************)
C3_FiveWeightPointsGiveZero == WeightPoints(fs) >= 5 => sc = 0

(***************************************************************************)
(* C3 as amended: findings whose weights sum to ten or more give score 0   *)
(* (five weight-points give 50).                                           *)
(***************************************************************************)
C3_TenWeightPointsGiveZero == WeightPoints(fs) >= 10 => sc = 0

C3_Witness == WeightPoints(fs) = 10 /\ sc = 0

(***************************************************************************)
(* C4.  The score never increases when a finding is added to the findings  *)
(* or a finding is replaced by one of higher severity.                     *)
(***************************************************************************)
C4_ScoreNonIncreasing == [][sc' <= sc]_vars

C4_Witness ==
    /\ Len(fs) >= 2
    /\ \E j, k \in DOMAIN fs : fs[j].data.severity # fs[k].data.severity
    /\ sc > 0 /\ sc < 100

(***************************************************************************)
(* C5.  The findings returned by analyze are in ascending line number, and *)
(* findings of one line are in the order of their rules in SECURITY_RULES. *)
(***************************************************************************)
C5_FindingsOrdered ==
    AnalyzeReturned =>
        LET F == response.body.findings
        IN  \A j, k \in DOMAIN F :
                j < k =>
                    \/ F[j].data.line < F[k].data.line
                    \/ /\ F[j].data.line = F[k].data.line
                       /\ RuleIndex(F[j].data.rule_id) < RuleIndex(F[k].data.rule_id)

C5_Witness ==
    /\ AnalyzeReturned
    /\ LET F == response.body.findings
       IN  /\ \E j, k \in DOMAIN F : j < k /\ F[j].data.line = F[k].data.line
           /\ \E j, k \in DOMAIN F :
                /\ F[j].data.line < F[k].data.line
                /\ RuleIndex(F[j].data.rule_id) > RuleIndex(F[k].data.rule_id)

(***************************************************************************)
(* C6.  The findings are exactly one finding per pair (line, rule) whose   *)
(* rule is for "any" language or for the declared language, compared       *)
(* without regard to case, and whose match substring occurs in the line,   *)
(* compared with regard to case; every finding carries its rule's fields.  *)
(***************************************************************************)
C6_FindingsExact ==
    AnalyzeReturned =>
        LET F == response.body.findings
            lines == splitlines(call.code)
        IN  /\ \A i \in DOMAIN lines, r \in DOMAIN SECURITY_RULES :
                    Cardinality({k \in DOMAIN F :
                                    /\ F[k].data.line = i
                                    /\ F[k].data.rule_id = SECURITY_RULES[r].id})
                    = IF Expected(r, call.language, lines[i]) THEN 1 ELSE 0
            /\ \A k \in DOMAIN F :
                    /\ F[k].cls = "Finding"
                    /\ F[k].data.line \in DOMAIN lines
                    /\ \E r \in DOMAIN SECURITY_RULES :
                          LET rule == SECURITY_RULES[r]
                          IN  /\ F[k].data.rule_id = rule.id
                              /\ F[k].data.title = rule.title
                              /\ F[k].data.severity = rule.severity
                              /\ F[k].data.description = rule.description
                              /\ F[k].data.recommendation = rule.recommendation

\* A line reported for two rules, one of whose substrings occurs twice in it.
C6_Witness ==
    /\ AnalyzeReturned
    /\ LET F == response.body.findings
           lines == splitlines(call.code)
       IN  \E j, k \in DOMAIN F :
              /\ j # k
              /\ F[j].data.line = F[k].data.line
              /\ Cardinality(Occurrences(SECURITY_RULES[RuleIndex(F[j].data.rule_id)].match,
                                         lines[F[j].data.line])) >= 2

(***************************************************************************)
(* C7.  The score is 100 minus min(100, 10 times the sum of the severity   *)
(* weights of the findings); code in which no rule's substring occurs      *)
(* gives no findings and score 100, and code whose findings are exactly    *)
(* one critical match gives score 50.                                      *)
(***************************************************************************)
C7_ScoreFormula ==
    AnalyzeReturned =>
        LET F == response.body.findings
            tenfold == 10 * WeightPoints(F)
        IN  /\ response.body.score
                 = 100 - (IF tenfold < 100 THEN tenfold ELSE 100)
            /\ (\A r \in DOMAIN SECURITY_RULES :
                    ~HasSubstring(SECURITY_RULES[r].match, call.code))
                 => (F = <<>> /\ response.body.score = 100)
            /\ (Len(F) = 1 /\ F[1].data.severity = "critical")
                 => response.body.score = 50

C7_Witness ==
    /\ AnalyzeReturned
    /\ Len(response.body.findings) = 1
    /\ response.body.findings[1].data.severity = "critical"
    /\ response.body.score = 50

(***************************************************************************)
(* C8.  Every analyze request that returns has added exactly one document  *)
(* to the "analysis" collection, holding the request's code and language   *)
(* and the findings, steps and score of its response; documents already    *)
(* stored are never changed or removed.                                    *)
(***************************************************************************)
C8_StoredOncePerRequest ==
    /\ Len(analysis) = served
    /\ AnalyzeReturned =>
          LET d == analysis[Len(analysis)]
              body == response.body
          IN  /\ d.code = call.code
              /\ d.language = call.language
              /\ d.score = body.score
              /\ Len(d.findings) = Len(body.findings)
              /\ \A k \in DOMAIN body.findings : d.findings[k] = body.findings[k].data
              /\ Len(d.steps) = Len(body.steps)
              /\ \A k \in DOMAIN body.steps : d.steps[k] = body.steps[k].data

C8_EarlierDocumentsKept ==
    /\ Len(analysis') >= Len(analysis)
    /\ \A k \in DOMAIN analysis : analysis'[k] = analysis[k]
    /\ Len(analysis') - Len(analysis) = served' - served
    /\ served' - served \in {0, 1}

C8_OneDocumentPerRequest ==
    [](C8_StoredOncePerRequest) /\ [][C8_EarlierDocumentsKept]_vars

C8_Witness ==
    /\ AnalyzeReturned
    /\ served = 2
    /\ analysis[1].code # analysis[2].code
    /\ analysis[1].score # analysis[2].score
    /\ response.body.findings # <<>>

(***************************************************************************)
(* C9.  analyze returns exactly three steps, scan (StaticAnalyzer), then   *)
(* scoring (RiskScorer), then remediation (Remediator); the scoring output *)
(* is "Score=" and the response's score, and the remediation output is     *)
(* "Clean bill of health" exactly when there are no findings and otherwise *)
(* the number of findings and " suggestions ready".                        *)
(***************************************************************************)
C9_ThreeSteps ==
    AnalyzeReturned =>
        LET S == response.body.steps
            F == response.body.findings
        IN  /\ Len(S) = 3
            /\ \A k \in DOMAIN S : S[k].cls = "AgentStep"
            /\ S[1].data.agent = "StaticAnalyzer"
            /\ S[2].data.agent = "RiskScorer"
            /\ S[3].data.agent = "Remediator"
            /\ IsThenNumber(S[2].data.output, SCORE_EQ, response.body.score)
            /\ (S[3].data.output = CLEAN) <=> (F = <<>>)
            /\ F # <<>> => IsNumberThen(S[3].data.output, Len(F), SUGGESTIONS_READY)

C9_Witness ==
    /\ AnalyzeReturned
    /\ Len(response.body.findings) >= 2
    /\ response.body.score \in 1..99
    /\ response.body.steps[3].data.output # CLEAN

(***************************************************************************)
(* C10.  GET /api/metrics/issues-fixed-today always returns a count: 1247  *)
(* when the document query raises, and otherwise 1247 plus half, rounded   *)
(* down, of the number of analysis documents created today; the count is   *)
(* never below 1247.                                                       *)
(***************************************************************************)
C10_IssuesFixedCount ==
    call.endpoint = "metrics" =>
        /\ response.outcome = "returned"
        /\ response.body.count >= 1247
        /\ call.storeRaised => response.body.count = 1247
        /\ ~call.storeRaised =>
              response.body.count
                = 1247 + (Cardinality(DocsOfDay(DayOf(call.at))) \div 2)

C10_Witness ==
    /\ call.endpoint = "metrics"
    /\ ~call.storeRaised
    /\ response.body.count = 1248
    /\ DayOf(call.at) > 0

====
